---- MODULE Spec2Model ----
(***************************************************************************)
(* A model of the Unpacker class of src/src/index.js (mattduffy/unpacker). *)
(*                                                                         *)
(* JavaScript strings are sequences of one-character strings, so that the  *)
(* regular expressions and the path functions of the class are computed    *)
(* character by character.  null and undefined are the one-element         *)
(* sequences NULL and UNDEFINED, which no character string equals.         *)
(* The external programs (which, file, tar, gzip, unzip, mkdir, mv, rm)    *)
(* and the file system are the environment: the file system is a set of    *)
(* entries, and every external call an operation makes is appended to      *)
(* trace.                                                                  *)
(***************************************************************************)
EXTENDS Integers, Sequences, FiniteSets, TLC

VARIABLES
  this,      \* the fields of the one Unpacker instance
  fs,        \* the file system: a set of [path, kind, gen] entries
  platform,  \* process.platform
  toolEnv,   \* what `which <tool>` finds on this machine, per tool
  gen,       \* number of extraction commands that have written output so far
  lastOp,    \* the last call made on the instance, with its arguments
  error,     \* the message of the Error that call threw, or NoError
  cause,     \* the cause attached to that Error, or NoError
  result,    \* the value that call returned
  trace      \* the external commands that call issued, in order

vars == <<this, fs, platform, toolEnv, gen, lastOp, error, cause, result, trace>>

-----------------------------------------------------------------------------
(* Bounds *)

\* unpack calls that reach the extraction command are not started once this
\* many extractions have written to the file system
MaxGen == 2

-----------------------------------------------------------------------------
(* JavaScript values *)

NULL == <<"null">>
UNDEFINED == <<"undefined">>

\* !x for a string-or-undefined argument
Falsy(x) == x = UNDEFINED \/ x = NULL \/ x = <<>>

TAR == <<"application/x-tar">>
ZIP == <<"application/zip">>
GZIP == <<"application/gzip">>
OCTET == <<"application/octet-stream">>
DIRECTORY == <<"inode/directory">>

-----------------------------------------------------------------------------
(* Strings *)

Last(s) == s[Len(s)]
DropLast(s, n) == SubSeq(s, 1, Len(s) - n)
DropFirst(s, n) == SubSeq(s, n + 1, Len(s))
EndsWith(s, suf) == Len(suf) <= Len(s) /\ SubSeq(s, Len(s) - Len(suf) + 1, Len(s)) = suf
StartsWith(s, pre) == Len(pre) <= Len(s) /\ SubSeq(s, 1, Len(pre)) = pre
Contains(s, sub) == \E i \in 1..(Len(s) - Len(sub) + 1) : SubSeq(s, i, i + Len(sub) - 1) = sub

\* s.split(c)
RECURSIVE Split(_, _)
Split(s, c) ==
  IF \A i \in 1..Len(s) : s[i] # c THEN <<s>>
  ELSE LET i == CHOOSE k \in 1..Len(s) : s[k] = c /\ \A j \in 1..(k - 1) : s[j] # c
       IN <<SubSeq(s, 1, i - 1)>> \o Split(DropFirst(s, i), c)

\* parts.join(c)
RECURSIVE Join(_, _)
Join(parts, c) ==
  IF Len(parts) = 0 THEN <<>>
  ELSE IF Len(parts) = 1 THEN parts[1]
  ELSE parts[1] \o <<c>> \o Join(Tail(parts), c)

-----------------------------------------------------------------------------
(* node:path *)

RECURSIVE NormalizeParts(_, _)
NormalizeParts(stack, parts) ==
  IF Len(parts) = 0 THEN stack
  ELSE LET p == Head(parts) IN
       IF p = <<>> \/ p = <<".">> THEN NormalizeParts(stack, Tail(parts))
       ELSE IF p = <<".", ".">>
         THEN NormalizeParts(IF Len(stack) = 0 THEN stack ELSE DropLast(stack, 1), Tail(parts))
       ELSE NormalizeParts(Append(stack, p), Tail(parts))

\* nodePath.resolve(p) with process.cwd() = cwd
Resolve(cwd, p) ==
  LET from == IF Len(p) > 0 /\ p[1] = "/" THEN <<>> ELSE NormalizeParts(<<>>, Split(cwd, "/"))
      parts == NormalizeParts(from, Split(p, "/"))
  IN <<"/">> \o Join(parts, "/")

LastIndexOf(s, c) ==
  IF \A i \in 1..Len(s) : s[i] # c THEN 0
  ELSE CHOOSE k \in 1..Len(s) : s[k] = c /\ \A j \in (k + 1)..Len(s) : s[j] # c

\* nodePath.parse(p), p absolute and normalized
Parse(p) ==
  LET cut == LastIndexOf(p, "/")
      base == DropFirst(p, cut)
      dir == IF cut <= 1 THEN <<"/">> ELSE SubSeq(p, 1, cut - 1)
      dot == LastIndexOf(base, ".")
      ext == IF dot <= 1 THEN <<>> ELSE DropFirst(base, dot - 1)
  IN [dir |-> dir, base |-> base, ext |-> ext, name |-> DropLast(base, Len(ext))]

NullFile == [dir |-> NULL, base |-> NULL, ext |-> NULL, name |-> NULL]

-----------------------------------------------------------------------------
(* The machine the class runs on *)

Str_w == <<"/", "w">>
Str_u == <<"/", "w", "/", "u">>
Str_d == <<"/", "d">>

\* process.cwd(): the class never changes it
ProcessCwd == Str_w

TarArchive == Str_u \o <<"/", "a", ".", "t", "a", "r">>
TarGzArchive == Str_u \o <<"/", "a", ".", "t", "a", "r", ".", "g", "z">>
TgzArchive == Str_u \o <<"/", "a", ".", "t", "g", "z">>
GzArchive == Str_u \o <<"/", "a", ".", "j", ".", "g", "z">>
ZipArchive == Str_u \o <<"/", "a", ".", "z", "i", "p">>
RarArchive == Str_u \o <<"/", "a", ".", "r", "a", "r">>
TextFile == Str_u \o <<"/", "a", ".", "t", "x", "t">>
MissingFile == Str_u \o <<"/", "m", ".", "t", "g", "z">>
RelativeZip == <<"u", "/", "a", ".", "z", "i", "p">>
\* a plain tar file that carries the name of a compressed one
TarNamedTgz == Str_u \o <<"/", "t", ".", "t", "g", "z">>

\* what `file --mime-type --brief` prints for each kind of content
RAR == <<"application/x-rar">>
TEXT == <<"text/plain">>
MimeOf(holds) ==
  CASE holds = "tar" -> TAR
    [] holds = "tgz" -> GZIP
    [] holds = "gz" -> GZIP
    [] holds = "zip" -> ZIP
    [] holds = "rar" -> RAR
    [] holds = "dir" -> DIRECTORY
    [] OTHER -> TEXT

\* a file-system entry: gen = 0 for what was there at the start or was made by
\* mkdir; gen = n > 0 for what the n-th extraction wrote (a directory with
\* gen > 0 holds the members of that extraction)
File(p, holds, g) == [path |-> p, kind |-> "file", gen |-> g, holds |-> holds]
Dir(p, g) == [path |-> p, kind |-> "dir", gen |-> g, holds |-> "dir"]

InitialFs ==
  { Dir(<<"/">>, 0), Dir(Str_w, 0), Dir(Str_u, 0), Dir(Str_d, 0),
    File(TarArchive, "tar", 0), File(TarGzArchive, "tgz", 0), File(TgzArchive, "tgz", 0),
    File(GzArchive, "gz", 0), File(ZipArchive, "zip", 0), File(RarArchive, "rar", 0),
    File(TextFile, "text", 0), File(TarNamedTgz, "tar", 0) }

\* the top-level directory every tar and zip fixture packs
TopLevel == <<"a">>

Tools == {"tar", "gzip", "unzip"}
ToolName(t) ==
  CASE t = "tar" -> <<"t", "a", "r">>
    [] t = "gzip" -> <<"g", "z", "i", "p">>
    [] t = "unzip" -> <<"u", "n", "z", "i", "p">>
ToolPath(t) == <<"/", "b", "/">> \o ToolName(t)
ToolVersion(t) == <<"1", ".", "3">>

\* `which <tool>` per tool: "present" prints the path; "blank" exits 0 and
\* prints nothing that names the tool; "exit1" exits 1, so that cmd() rejects
WhichResults == {"present", "blank", "exit1"}
ToolEnvs ==
  { [t \in Tools |-> "present"],
    [t \in Tools |-> IF t = "tar" THEN "blank" ELSE "present"],
    [t \in Tools |-> IF t = "gzip" THEN "blank" ELSE "present"],
    [t \in Tools |-> IF t = "unzip" THEN "blank" ELSE "present"],
    [t \in Tools |-> IF t = "unzip" THEN "exit1" ELSE "present"] }

Platforms == {"linux", "darwin"}

\* fs.stat(p) resolves p against process.cwd() and follows it to an entry
Exists(f, p) == \E e \in f : e.path = p
Entry(f, p) == CHOOSE e \in f : e.path = p
StatPath(p) == Resolve(ProcessCwd, p)
\* what fs.stat(p) reports: "file", "dir" or "ENOENT"; a path with a trailing
\* slash names a directory only
Stat(f, p) ==
  LET q == StatPath(p) IN
  IF ~Exists(f, q) THEN "ENOENT"
  ELSE IF Len(p) > 1 /\ Last(p) = "/" /\ Entry(f, q).kind # "dir" THEN "ENOENT"
  ELSE Entry(f, q).kind

\* an external call, as recorded in trace
Call(prog, flags, a, b) == [prog |-> prog, flags |-> flags, a |-> a, b |-> b]
NoError == <<"none">>

-----------------------------------------------------------------------------
(* constructor, src/src/index.js 36-53 *)

NullTool == [type |-> "null", path |-> UNDEFINED, version |-> UNDEFINED]
FalseTool == [type |-> "false", path |-> UNDEFINED, version |-> UNDEFINED]
ToolObject(p, v) == [type |-> "object", path |-> p, version |-> v]

Constructor ==
  [ _path |-> NULL, _file |-> NullFile, _fileBasename |-> NULL, _fileExt |-> NULL,
    _mimetype |-> NULL, _isTarFile |-> FALSE, _isGzipFile |-> FALSE,
    _isZipFile |-> FALSE, _isCompressed |-> FALSE,
    isGzipFile |-> FALSE,
    _tar |-> NullTool, _gzip |-> NullTool, _unzip |-> NullTool,
    _cwd |-> ProcessCwd, _destination |-> UNDEFINED ]

getPath == this._path
getMimetype == this._mimetype
getExtension == this._fileExt
getFileBasename == this._fileBasename

-----------------------------------------------------------------------------
(* setMimetype, src/src/index.js 143-169 *)

\* stdout of `file --mime-type --brief '<file>'`
ProbeOutput(f, file) ==
  IF Exists(f, file) THEN MimeOf(Entry(f, file).holds) ELSE <<"cannot open">>

\* probeRuns: whether cmd() resolved (the command ran and exited 0)
setMimetype(t, file, f, probeRuns) ==
  IF ~probeRuns THEN [this |-> t, threw |-> <<"File not found">>]
  ELSE LET mime == ProbeOutput(f, file) IN
       [ this |-> [t EXCEPT !._mimetype =
                     IF mime = TAR THEN TAR
                     ELSE IF mime = ZIP THEN ZIP
                     ELSE IF mime = GZIP THEN GZIP
                     ELSE IF mime = DIRECTORY THEN DIRECTORY
                     ELSE OCTET],
         threw |-> NoError ]

-----------------------------------------------------------------------------
(* setExtension, src/src/index.js 179-210 *)

\* the words of /\.*(\.(t(ar)?(\.?gz)?)|(zip)?|(gz)?)$/ after the leading dots
ExtAlternatives ==
  { <<".", "t">>, <<".", "t", "a", "r">>,
    <<".", "t", "g", "z">>, <<".", "t", ".", "g", "z">>,
    <<".", "t", "a", "r", "g", "z">>, <<".", "t", "a", "r", ".", "g", "z">>,
    <<"z", "i", "p">>, <<"g", "z">>, <<>> }

\* w is matched whole by \.*(\.(t(ar)?(\.?gz)?)|(zip)?|(gz)?)
InExtLanguage(w) ==
  \E k \in 0..Len(w) :
    /\ \A i \in 1..k : w[i] = "."
    /\ DropFirst(w, k) \in ExtAlternatives

\* ext[0] of regex.exec(file): the match that starts leftmost and ends at $;
\* NULL when there is none
ExecExtension(file) ==
  LET starts == {i \in 1..(Len(file) + 1) : InExtLanguage(DropFirst(file, i - 1))} IN
  IF starts = {} THEN NULL
  ELSE DropFirst(file, (CHOOSE i \in starts : \A j \in starts : i <= j) - 1)

\* a classification whose zip branch leaves the tar and gzip flags as they are
setExtensionKeepingFlags(t, file) ==
  LET ext == ExecExtension(file) IN
  IF ext = NULL THEN [this |-> t, threw |-> <<"does not look like a (compressed) archive file">>]
  ELSE
    LET t1 == IF t._mimetype = ZIP
                THEN [t EXCEPT !._isCompressed = TRUE, !._isZipFile = TRUE]
                ELSE t
        t2 == IF t1._mimetype = GZIP
                THEN [t1 EXCEPT !._isCompressed = TRUE, !._isGzipFile = TRUE,
                                !._isZipFile = FALSE, !._isTarFile = FALSE]
                ELSE t1
        t3 == IF EndsWith(ext, <<"t", "a", "r">>)
                THEN [t2 EXCEPT !._isTarFile = TRUE, !._isCompressed = FALSE,
                                !._isZipFile = FALSE, !._isGzipFile = FALSE]
                ELSE t2
        t4 == IF ext \in { <<".", "t", "a", "r", ".", "g", "z">>, <<".", "t", "g", "z">> }
                THEN [t3 EXCEPT !._isCompressed = TRUE, !._isTarFile = TRUE,
                                !.isGzipFile = TRUE, !._isZipFile = FALSE]
                ELSE t3
    IN [this |-> [t4 EXCEPT !._fileExt = ext], threw |-> NoError]

setExtension(t, file) ==
  LET ext == ExecExtension(file) IN
  IF ext = NULL THEN [this |-> t, threw |-> <<"does not look like a (compressed) archive file">>]
  ELSE
    LET t1 == IF t._mimetype = ZIP
                THEN [t EXCEPT !._isCompressed = TRUE, !._isZipFile = TRUE,
                               !._isGzipFile = FALSE, !._isTarFile = FALSE]
                ELSE t
        t2 == IF t1._mimetype = GZIP
                THEN [t1 EXCEPT !._isCompressed = TRUE, !._isGzipFile = TRUE,
                                !._isZipFile = FALSE, !._isTarFile = FALSE]
                ELSE t1
        \* /\.?tar$/.test(ext[0])
        t3 == IF EndsWith(ext, <<"t", "a", "r">>)
                THEN [t2 EXCEPT !._isTarFile = TRUE, !._isCompressed = FALSE,
                                !._isZipFile = FALSE, !._isGzipFile = FALSE]
                ELSE t2
        \* line 206 assigns this.isGzipFile, not this._isGzipFile
        t4 == IF ext \in { <<".", "t", "a", "r", ".", "g", "z">>, <<".", "t", "g", "z">> }
                THEN [t3 EXCEPT !._isCompressed = TRUE, !._isTarFile = TRUE,
                                !.isGzipFile = TRUE, !._isZipFile = FALSE]
                ELSE t3
    IN [this |-> [t4 EXCEPT !._fileExt = ext], threw |-> NoError]

-----------------------------------------------------------------------------
(* setFileBasename, src/src/index.js 228-233 *)

\* a basename cut at the last dot of the name, whatever the extension is
MatchBasenameAtLastDot(base, ext) ==
  IF LastIndexOf(base, ".") = 0 THEN base ELSE SubSeq(base, 1, LastIndexOf(base, ".") - 1)

\* base.match(`^(.*)${ext}$`)[1]: ext is read as a pattern, where "." stands
\* for any character; NULL when base does not match
MatchBasename(base, ext) ==
  IF /\ Len(ext) <= Len(base)
     /\ \A i \in 1..Len(ext) :
          ext[i] = "." \/ ext[i] = base[Len(base) - Len(ext) + i]
  THEN DropLast(base, Len(ext))
  ELSE NULL

setFileBasename(t) ==
  IF t._file = NullFile \/ t._fileExt = NULL
    THEN [this |-> t, threw |-> <<"TypeError">>]
  ELSE LET m == MatchBasename(t._file.base, t._fileExt) IN
       IF m = NULL THEN [this |-> t, threw |-> <<"TypeError">>]
       ELSE [this |-> [t EXCEPT !._fileBasename = m], threw |-> NoError]

-----------------------------------------------------------------------------
(* whichTar, whichGzip, whichUnzip, src/src/index.js 253-336 *)

Binding(t, tool) ==
  CASE tool = "tar" -> t._tar [] tool = "gzip" -> t._gzip [] tool = "unzip" -> t._unzip

Bind(t, tool, v) ==
  CASE tool = "tar" -> [t EXCEPT !._tar = v]
    [] tool = "gzip" -> [t EXCEPT !._gzip = v]
    [] tool = "unzip" -> [t EXCEPT !._unzip = v]

\* stdout of `which <tool>`
WhichStdout(tool, found) == IF found = "present" THEN ToolPath(tool) ELSE <<>>

WhichCall(tool) == Call(<<"which">>, "", ToolName(tool), <<>>)
VersionCall(tool) == Call(ToolPath(tool), "--version", <<>>, <<>>)

\* the version pipeline ends in awk, whose exit status is the pipeline's
which(t, tool, found) ==
  IF found = "exit1"
    THEN [this |-> t, threw |-> <<"Error">>, trace |-> <<WhichCall(tool)>>]
  ELSE LET path == WhichStdout(tool, found) IN
       IF ~Contains(path, ToolName(tool))
         THEN [this |-> Bind(t, tool, FalseTool), threw |-> NoError,
               trace |-> <<WhichCall(tool)>>]
       ELSE [this |-> Bind(t, tool, ToolObject(path, ToolVersion(tool))),
             threw |-> NoError, trace |-> <<WhichCall(tool), VersionCall(tool)>>]

whichTar(t, env) == which(t, "tar", env["tar"])
whichGzip(t, env) == which(t, "gzip", env["gzip"])
whichUnzip(t, env) == which(t, "unzip", env["unzip"])

\* this.which<Tool>()
Lookup(t, tool, env) ==
  CASE tool = "tar" -> whichTar(t, env)
    [] tool = "gzip" -> whichGzip(t, env)
    [] tool = "unzip" -> whichUnzip(t, env)

\* what a lookup w adds to the steps r before it
After(r, tool, w) ==
  [ this |-> w.this, trace |-> r.trace \o w.trace,
    threw |-> IF w.threw = NoError THEN NoError ELSE <<tool>> ]

\* a guard that looks a tool up again when it was recorded as not found
IfFalsy(r, tool, env) ==
  IF r.threw # NoError \/ Binding(r.this, tool).type = "object" THEN r
  ELSE After(r, tool, Lookup(r.this, tool, env))

\* if (this._<tool> === null) { await this.which<Tool>() }, after the steps r
IfNull(r, tool, env) ==
  IF r.threw # NoError \/ Binding(r.this, tool) # NullTool THEN r
  ELSE After(r, tool, Lookup(r.this, tool, env))

\* the three guarded lookups, in the order of setPath and checkCommands;
\* threw names the tool whose lookup threw
LookupTools(t, env) ==
  IfNull(IfNull(IfNull([this |-> t, threw |-> NoError, trace |-> <<>>], "tar", env),
                "gzip", env),
         "unzip", env)

-----------------------------------------------------------------------------
(* setPath, src/src/index.js 74-122 *)

StatCall(p) == Call(<<"fs.stat">>, "", p, <<>>)
FileCall(p) == Call(<<"file">>, "--mime-type --brief", p, <<>>)

FailedToFind(tool) ==
  CASE tool = <<"tar">> -> <<"Failed to find tar.">>
    [] tool = <<"gzip">> -> <<"Failed to find gzip.">>
    [] tool = <<"unzip">> -> <<"Failed to find unzip.">>

SetPathResult(t, msg, tr) == [this |-> t, error |-> msg, trace |-> tr]

\* lines 111-121, e being what setExtension left
Named(e, tr) ==
  IF e.threw # NoError THEN SetPathResult(e.this, <<"File extension problem">>, tr)
  ELSE IF setFileBasename(e.this).threw # NoError
    THEN SetPathResult(setFileBasename(e.this).this, <<"File basename problem">>, tr)
  ELSE SetPathResult(setFileBasename(e.this).this, NoError, tr)

\* lines 105-110, m being what setMimetype left
Probed(m, filePath, tr) ==
  IF m.threw # NoError THEN SetPathResult(m.this, <<"Not a valid file path">>, tr)
  ELSE Named(setExtension([m.this EXCEPT !._file = Parse(m.this._path)], filePath), tr)

\* setPath that records the resolved path before it stats the file
LocatedRecordingFirst(l, filePath, resolved, f, probeRuns) ==
  IF l.threw # NoError THEN SetPathResult(l.this, FailedToFind(l.threw), l.trace)
  ELSE IF Stat(f, filePath) # "file"
    THEN SetPathResult([l.this EXCEPT !._path = resolved], <<"Not a valid file path">>,
                       Append(l.trace, StatCall(filePath)))
  ELSE Probed(setMimetype([l.this EXCEPT !._path = resolved], resolved, f, probeRuns),
              filePath, l.trace \o <<StatCall(filePath), FileCall(resolved)>>)

\* lines 99-104, l being what the tool lookups left
Located(l, filePath, resolved, f, probeRuns) ==
  IF l.threw # NoError THEN SetPathResult(l.this, FailedToFind(l.threw), l.trace)
  ELSE IF Stat(f, filePath) # "file"
    THEN SetPathResult(l.this, <<"Not a valid file path">>, Append(l.trace, StatCall(filePath)))
  ELSE Probed(setMimetype([l.this EXCEPT !._path = resolved], resolved, f, probeRuns),
              filePath, l.trace \o <<StatCall(filePath), FileCall(resolved)>>)

\* setPath that records and probes the path as given, without nodePath.resolve
setPathUnresolved(t, filePath, f, env, probeRuns) ==
  IF Falsy(filePath) THEN SetPathResult(t, <<"Missing required path argument.">>, <<>>)
  ELSE Located(LookupTools(t, env), filePath, filePath, f, probeRuns)

\* setPath that looks the tools up before it checks its argument
setPathLookingUpFirst(t, filePath, f, env, probeRuns) ==
  IF Falsy(filePath)
    THEN SetPathResult(LookupTools(t, env).this, <<"Missing required path argument.">>,
                       LookupTools(t, env).trace)
  ELSE Located(LookupTools(t, env), filePath, Resolve(ProcessCwd, filePath), f, probeRuns)

setPath(t, filePath, f, env, probeRuns) ==
  IF Falsy(filePath) THEN SetPathResult(t, <<"Missing required path argument.">>, <<>>)
  ELSE Located(LookupTools(t, env), filePath, Resolve(ProcessCwd, filePath), f, probeRuns)

-----------------------------------------------------------------------------
(* checkCommands, src/src/index.js 345-356 *)

checkCommands(t, env) ==
  LET l == LookupTools(t, env) IN
  [ this |-> l.this, trace |-> l.trace,
    error |-> IF l.threw = NoError THEN NoError ELSE <<"Error">>,
    bindings |-> [tar |-> l.this._tar, gzip |-> l.this._gzip, unzip |-> l.this._unzip] ]

-----------------------------------------------------------------------------
(* The file system and the external commands unpack runs *)

Under(p, root) == p = root \/ StartsWith(p, IF root = <<"/">> THEN root ELSE Append(root, "/"))
Remove(f, root) == {e \in f : ~Under(e.path, root)}
Rebase(f, from, to) ==
  { IF Under(e.path, from) THEN [e EXCEPT !.path = to \o DropFirst(e.path, Len(from))] ELSE e :
      e \in f }
IsEmptyDir(f, p) ==
  /\ Entry(f, p).kind = "dir" /\ Entry(f, p).gen = 0
  /\ \A e \in f : Under(e.path, p) => e.path = p
Child(dir, name) == IF dir = <<"/">> THEN dir \o name ELSE dir \o <<"/">> \o name

\* p and the directories above it
Lineage(p) == {p} \cup {SubSeq(p, 1, i - 1) : i \in {k \in 2..Len(p) : p[k] = "/"}}

\* `mkdir -v -p <p>`: fails when a name on the way is taken by a file
MkdirP(f, p) ==
  LET q == StatPath(p) IN
  IF \E x \in Lineage(q) : Exists(f, x) /\ Entry(f, x).kind # "dir"
    THEN [ok |-> FALSE, fs |-> f]
  ELSE [ok |-> TRUE, fs |-> f \cup {Dir(x, 0) : x \in {y \in Lineage(q) : ~Exists(f, y)}}]

DigitChars == <<"1", "2", "3", "4", "5", "6", "7", "8", "9">>
BackupName(target, n) == target \o <<".", "~", DigitChars[n], "~">>
\* the numbered backup GNU mv picks: one more than the highest there is
NextBackup(f, target) ==
  LET used == {n \in 1..Len(DigitChars) : Exists(f, BackupName(target, n))}
      top == IF used = {} THEN 0 ELSE CHOOSE n \in used : \A m \in used : m <= n
  IN BackupName(target, top + 1)

\* mv that puts the source over what is in the way, asked for backups or not
MoveOntoOverwriting(f, src, dst, target, numbered) ==
  IF ~Exists(f, src) \/ ~Exists(f, dst) \/ Entry(f, dst).kind # "dir" THEN [ok |-> FALSE, fs |-> f]
  ELSE IF target = src \/ Under(dst, src) THEN [ok |-> FALSE, fs |-> f]
  ELSE [ok |-> TRUE, fs |-> Rebase(Remove(f, target), src, target)]

\* `mv [-f] [--backup=numbered] <source> <destination>`, destination a
\* directory: the source goes to <destination>/<name of source>.  What is in
\* the way is first renamed to a numbered backup when backups are asked for;
\* without backups a file replaces a file, a directory replaces an empty
\* directory, and anything else makes mv fail.
MoveOnto(f, src, dst, target, numbered) ==
  IF ~Exists(f, src) \/ ~Exists(f, dst) \/ Entry(f, dst).kind # "dir" THEN [ok |-> FALSE, fs |-> f]
  ELSE IF target = src \/ Under(dst, src) THEN [ok |-> FALSE, fs |-> f]
  ELSE IF ~Exists(f, target) THEN [ok |-> TRUE, fs |-> Rebase(f, src, target)]
  ELSE IF numbered
    THEN [ok |-> TRUE, fs |-> Rebase(Rebase(f, target, NextBackup(f, target)), src, target)]
  ELSE IF \/ Entry(f, src).kind = "file" /\ Entry(f, target).kind = "file"
          \/ Entry(f, src).kind = "dir" /\ IsEmptyDir(f, target)
    THEN [ok |-> TRUE, fs |-> Rebase(Remove(f, target), src, target)]
  ELSE [ok |-> FALSE, fs |-> f]

MvCommand(f, source, destination, numbered) ==
  MoveOnto(f, StatPath(source), StatPath(destination),
           Child(StatPath(destination), Parse(StatPath(source)).base), numbered)

\* fs.rename(from, to)
RenameCall(f, from, to) ==
  IF ~Exists(f, from) \/ (Under(to, from) /\ to # from) THEN [ok |-> FALSE, fs |-> f]
  ELSE IF to = from THEN [ok |-> TRUE, fs |-> f]
  ELSE IF ~Exists(f, to) THEN [ok |-> TRUE, fs |-> Rebase(f, from, to)]
  ELSE IF \/ Entry(f, from).kind = "file" /\ Entry(f, to).kind = "file"
          \/ Entry(f, from).kind = "dir" /\ IsEmptyDir(f, to)
    THEN [ok |-> TRUE, fs |-> Rebase(Remove(f, to), from, to)]
  ELSE [ok |-> FALSE, fs |-> f]

\* how an extraction command can end: "clean" exits 0 and prints nothing;
\* "noisy" exits 0 with text on stdout and on stderr; "stderrOnly" exits 0
\* with text on stderr and an empty stdout; "rejected" exits non-zero
ExtractionEnds == {"clean", "noisy", "stderrOnly", "rejected"}

\* whether the program named by the call can read the archive it is given
CanExtract(f, c) ==
  /\ Exists(f, c.a)
  /\ \/ c.prog = ToolPath("tar") /\ c.flags = "-xf" /\ Entry(f, c.a).holds \in {"tar", "tgz"}
     \/ c.prog = ToolPath("tar") /\ c.flags = "-xzf" /\ Entry(f, c.a).holds = "tgz"
     \/ c.prog = ToolPath("unzip") /\ Entry(f, c.a).holds = "zip"
     \/ /\ c.prog = ToolPath("gzip") /\ Entry(f, c.a).holds \in {"gz", "tgz"}
        /\ Len(c.b) > 0 /\ EndsWith(c.a, c.b) /\ ~Exists(f, DropLast(c.a, Len(c.b)))

\* the file system after the n-th extraction: tar and unzip unpack the
\* top-level directory into process.cwd(); gzip writes the file beside the
\* archive, under the archive's name without the suffix
Extracted(f, c, n) ==
  IF c.prog = ToolPath("gzip") THEN f \cup {File(DropLast(c.a, Len(c.b)), "data", n)}
  ELSE Remove(f, Child(ProcessCwd, TopLevel)) \cup {Dir(Child(ProcessCwd, TopLevel), n)}

-----------------------------------------------------------------------------
(* mv, src/src/index.js 487-531 *)

NUMBERED == <<"numbered">>

MkdirCall(p) == Call(<<"mkdir">>, "-v -p", p, <<>>)
MvCall(force, backup, source, destination) ==
  Call(<<"mv">>,
       IF force /\ backup = NUMBERED THEN "-f --backup=numbered"
       ELSE IF force THEN "-f"
       ELSE IF backup = NUMBERED THEN "--backup=numbered"
       ELSE "",
       source, destination)

MvResult(t, f, msg, c, tr) == [this |-> t, fs |-> f, threw |-> msg, cause |-> c, trace |-> tr]

\* lines 518-530, moved being what the mv command left
Moved(t, f, moved, destination, tr) ==
  IF ~moved.ok THEN MvResult(t, f, <<"Move failed. Cause: ">>, <<"mv failed">>, tr)
  ELSE MvResult([t EXCEPT !._destination = destination], moved.fs, NoError, NoError, tr)

\* lines 513-517, made being what mkdir left, if it ran
IntoDestination(t, f, made, source, destination, options, tr) ==
  IF ~made.ok THEN MvResult(t, f, <<"mkdir failed">>, NoError, tr)
  ELSE IF Stat(made.fs, destination) = "ENOENT"
    THEN MvResult(t, made.fs, <<"Move failed. Cause: ">>, <<"ENOENT">>,
                  Append(tr, StatCall(destination)))
  ELSE IF Stat(made.fs, destination) = "dir" /\ ~options.force
    THEN MvResult(t, made.fs, <<"Move failed. Cause: ">>,
                  <<"Destination already exists, no over-writing">>,
                  Append(tr, StatCall(destination)))
  ELSE Moved(t, made.fs, MvCommand(made.fs, source, destination, options.backup = NUMBERED),
             destination,
             tr \o <<StatCall(destination),
                     MvCall(options.force, options.backup, source, destination)>>)

\* options: [force, backup], as unpack passes them
mv(t, f, source, destination, options) ==
  IF Falsy(source) THEN MvResult(t, f, <<"Missing source argument">>, NoError, <<>>)
  ELSE IF Falsy(destination)
    THEN MvResult(t, f, <<"Missing destination argument">>, NoError, <<>>)
  ELSE IF Stat(f, source) = "ENOENT"
    THEN MvResult(t, f, <<"Source missing directory">>, NoError, <<StatCall(source)>>)
  ELSE IF Stat(f, destination) = "ENOENT"
    THEN IntoDestination(t, f, MkdirP(f, destination), source, destination, options,
                         <<StatCall(source), StatCall(destination), MkdirCall(destination)>>)
  ELSE IntoDestination(t, f, [ok |-> TRUE, fs |-> f], source, destination, options,
                       <<StatCall(source), StatCall(destination)>>)

-----------------------------------------------------------------------------
(* cleanup, src/src/index.js 668-675 *)

RmCall(p) == Call(<<"rm">>, "-rf", p, <<>>)

\* how `rm -rf` can end: "removed" exits 0, "rejected" exits non-zero and
\* removes nothing
RmEnds == {"removed", "rejected"}

\* a rejection of rm is caught and dropped
cleanup(t, f, artifact, rm) ==
  [ fs |-> IF rm = "rejected" THEN f ELSE Remove(f, StatPath(t._cwd \o <<"/">> \o artifact)),
    trace |-> <<RmCall(t._cwd \o <<"/">> \o artifact)>> ]

-----------------------------------------------------------------------------
(* unpack, src/src/index.js 372-473 *)

Undefined == [type |-> "undefined"]

\* moveOptions as the caller gives them: keys names the properties present
NoOptions == [keys |-> {}, force |-> TRUE, backup |-> NUMBERED]
\* { force: true, backup: 'numbered', ...opts }, and backup = false on darwin
MoveOptions(opts, plat) ==
  [ force |-> IF "force" \in opts.keys THEN opts.force ELSE TRUE,
    backup |-> IF plat = "darwin" THEN <<"false">>
               ELSE IF "backup" \in opts.keys THEN opts.backup ELSE NUMBERED ]

NoRename == [rename |-> FALSE, newName |-> UNDEFINED]

\* destination.replace(/(.*[^\/])$/, '$1/')
WithSlash(d) == IF Len(d) > 0 /\ Last(d) # "/" THEN Append(d, "/") ELSE d

\* \w, over the characters that occur in the names of this model
IsWord(c) == c \notin {".", "/", "~", "-", " ", "\n"}

\* basename.replace(/^(\w+?[^\.]*)((\.?)\w+)?$/, '$1'): the part before the
\* dot of a name that starts with a word character and has one dot, followed
\* by word characters only; any other name is left as it is
Stem(b) ==
  LET dots == {i \in 1..Len(b) : b[i] = "."} IN
  IF Len(b) = 0 \/ ~IsWord(b[1]) \/ dots = {} THEN b
  ELSE LET d == CHOOSE i \in dots : \A j \in dots : i <= j IN
       IF d < Len(b) /\ \A i \in (d + 1)..Len(b) : IsWord(b[i]) THEN SubSeq(b, 1, d - 1)
       ELSE b

Thrown(t, f, msg, c, tr) ==
  [this |-> t, fs |-> f, error |-> msg, cause |-> c, result |-> Undefined, trace |-> tr]

\* a command selection that falls back to unzip when no family flag is set
ExtractionCommandDefaultZip(t) ==
  IF t._isTarFile /\ ~t._isCompressed THEN
    IF t._tar = NullTool THEN [threw |-> <<"TypeError">>]
    ELSE [threw |-> NoError, call |-> Call(t._tar.path, "-xf", t._path, <<>>)]
  ELSE IF t._isTarFile /\ t._isGzipFile THEN
    IF t._tar = NullTool THEN [threw |-> <<"TypeError">>]
    ELSE [threw |-> NoError, call |-> Call(t._tar.path, "-xzf", t._path, <<>>)]
  ELSE IF t._isGzipFile /\ t._isCompressed THEN
    IF t._gzip = NullTool \/ t._file = NullFile THEN [threw |-> <<"TypeError">>]
    ELSE [threw |-> NoError,
          call |-> Call(t._gzip.path, "--decompress --keep --suffix", t._path, t._file.ext)]
  ELSE IF t._unzip = NullTool THEN [threw |-> <<"Not an archive?">>]
  ELSE [threw |-> NoError, call |-> Call(t._unzip.path, "-x __MACOSX*", t._path, <<>>)]

\* lines 385-402: the extraction command, or what building it throws
ExtractionCommand(t) ==
  IF t._isTarFile /\ ~t._isCompressed THEN
    IF t._tar = NullTool THEN [threw |-> <<"TypeError">>]
    ELSE [threw |-> NoError, call |-> Call(t._tar.path, "-xf", t._path, <<>>)]
  ELSE IF t._isTarFile /\ t._isGzipFile THEN
    IF t._tar = NullTool THEN [threw |-> <<"TypeError">>]
    ELSE [threw |-> NoError, call |-> Call(t._tar.path, "-xzf", t._path, <<>>)]
  ELSE IF t._isGzipFile /\ t._isCompressed THEN
    IF t._gzip = NullTool \/ t._file = NullFile THEN [threw |-> <<"TypeError">>]
    ELSE [threw |-> NoError,
          call |-> Call(t._gzip.path, "--decompress --keep --suffix", t._path, t._file.ext)]
  ELSE IF t._isZipFile THEN
    IF t._unzip = NullTool THEN [threw |-> <<"TypeError">>]
    ELSE [threw |-> NoError, call |-> Call(t._unzip.path, "-x __MACOSX*", t._path, <<>>)]
  ELSE [threw |-> <<"Not an archive?">>]

\* lines 422-429
StagingPath(t) ==
  IF t._isTarFile \/ t._isZipFile THEN t._cwd \o <<"/">> \o t._fileBasename
  ELSE t._file.dir \o <<"/">> \o t._fileBasename

MACOSX == <<"_", "_", "M", "A", "C", "O", "S", "X">>

\* lines 462-471, renamed being what fs.rename left
Renamed(t, f, renamed, renamedDestination, res, tr) ==
  IF ~renamed.ok THEN Thrown(t, f, <<"Error: rename">>, NoError, tr)
  ELSE [ this |-> [t EXCEPT !._destination = renamedDestination], fs |-> renamed.fs,
         error |-> NoError, cause |-> NoError,
         result |-> [res EXCEPT !.destination = renamedDestination], trace |-> tr ]

\* lines 458-461
FullDestination(destination, tempDir) == destination \o Last(Split(tempDir, "/"))
RenamedDestination(destination, newName) ==
  Join(Append(DropLast(Split(destination, "/"), 1), newName), "/")

\* lines 456-461, after the move to destination
RenameStep(t, f, fullDestination, renamedDestination, res, tr) ==
  Renamed(t, f, RenameCall(f, StatPath(fullDestination), StatPath(renamedDestination)),
          renamedDestination, res,
          Append(tr, Call(<<"fs.rename">>, "", fullDestination, renamedDestination)))

\* lines 450-472, c being what the two cleanups left
Cleaned(t, c, dest, tempDir, rename, res) ==
  IF rename.rename
    THEN RenameStep(t, c.fs, FullDestination(dest, tempDir),
                    RenamedDestination(dest, rename.newName), res, c.trace)
  ELSE [ this |-> t, fs |-> c.fs, error |-> NoError, cause |-> NoError,
         result |-> res, trace |-> c.trace ]

\* a cleanup whose rm commands are issued ahead of the steps before them
CleanupBothFirst(t, c1, tr, rm) ==
  [ fs |-> cleanup(t, c1.fs, <<".", "_">> \o t._file.name, rm).fs,
    trace |-> c1.trace \o cleanup(t, c1.fs, <<".", "_">> \o t._file.name, rm).trace \o tr ]

\* lines 451-452: the second cleanup after the first, c1
CleanupBoth(t, c1, tr, rm) ==
  [ fs |-> cleanup(t, c1.fs, <<".", "_">> \o t._file.name, rm).fs,
    trace |-> tr \o c1.trace \o cleanup(t, c1.fs, <<".", "_">> \o t._file.name, rm).trace ]

\* unpack in which a cleanup that rm rejects makes the call fail
AfterMoveEscalating(move, dest, tempDir, rename, res, tr, rms) ==
  IF move.threw # NoError
    THEN Thrown(move.this, move.fs, <<"Error: ">> \o move.threw,
                <<"Error ocurred trying to move">>, tr \o move.trace)
  ELSE IF "rejected" \in {rms[1], rms[2]}
    THEN Thrown(move.this, move.fs, <<"Error: rm">>, NoError, tr \o move.trace)
  ELSE Cleaned(move.this,
               CleanupBoth(move.this, cleanup(move.this, move.fs, MACOSX, rms[1]),
                           tr \o move.trace, rms[2]),
               dest, tempDir, rename,
               [ type |-> "object", stdout |-> res.stdout, stderr |-> res.stderr,
                 unpacked |-> TRUE, cwd |-> tempDir, destination |-> dest ])

\* lines 443-455, move being what mv left and rms how the two rm end
AfterMove(move, dest, tempDir, rename, res, tr, rms) ==
  IF move.threw # NoError
    THEN Thrown(move.this, move.fs, <<"Error: ">> \o move.threw,
                <<"Error ocurred trying to move">>, tr \o move.trace)
  ELSE Cleaned(move.this,
               CleanupBoth(move.this, cleanup(move.this, move.fs, MACOSX, rms[1]),
                           tr \o move.trace, rms[2]),
               dest, tempDir, rename,
               [ type |-> "object", stdout |-> res.stdout, stderr |-> res.stderr,
                 unpacked |-> TRUE, cwd |-> tempDir, destination |-> dest ])

\* lines 431-443, tempDir being the staging path and kind what stat says of it
Staged(t, f, tempDir, kind, destination, stem, options, rename, res, tr, rms) ==
  IF kind = "ENOENT"
    THEN Thrown(t, f, <<"Error: ENOENT">>, <<"Error ocurred trying to move">>, tr)
  ELSE IF kind = "file"
    THEN AfterMove(mv(t, f, tempDir, destination \o stem \o <<"/">>, options),
                   destination \o stem \o <<"/">>, tempDir, rename, res, tr, rms)
  ELSE AfterMove(mv(t, f, tempDir, destination, options), destination, tempDir, rename, res, tr,
                 rms)

\* lines 422-472, after an extraction that did not throw
Relocate(t, f, destination, options, rename, res, tr, rms) ==
  Staged(t, f, StagingPath(t), Stat(f, StagingPath(t)), destination, Stem(t._fileBasename),
         options, rename, res, Append(tr, StatCall(StagingPath(t))), rms)

\* unpack that takes any text on stderr for a failure of the extraction
ExtractionStrict(t, f, command, end, destination, options, rename, n, rms) ==
  IF end = "rejected"
    THEN Thrown(t, f, <<"Failed trying to move unpacked file(s)">>, <<"exec error">>,
                <<command>>)
  ELSE IF end \in {"stderrOnly", "noisy"}
    THEN Thrown(t, Extracted(f, command, n),
                <<"Failed trying to move unpacked file(s)">>, <<"stderr">>, <<command>>)
  ELSE Relocate(t, Extracted(f, command, n), destination, options, rename,
                [stdout |-> <<>>, stderr |-> <<>>], <<command>>, rms)

\* lines 403-421, command being the extraction command and end how it ends
Extraction(t, f, command, end, destination, options, rename, n, rms) ==
  IF end = "rejected"
    THEN Thrown(t, f, <<"Failed trying to move unpacked file(s)">>, <<"exec error">>,
                <<command>>)
  ELSE IF end = "stderrOnly"
    THEN Thrown(t, Extracted(f, command, n),
                <<"Failed trying to move unpacked file(s)">>, <<"stderr">>, <<command>>)
  ELSE Relocate(t, Extracted(f, command, n), destination, options, rename,
                [ stdout |-> IF end = "noisy" THEN <<"t", "e", "x", "t">> ELSE <<>>,
                  stderr |-> IF end = "noisy" THEN <<"t", "e", "x", "t">> ELSE <<>> ],
                <<command>>, rms)

\* unpack that hands destination on as given, without nodePath.resolve
DispatchUnresolved(t, f, command, options, moveTo, rename, ends, n, rms) ==
  IF t._tar = NullTool /\ t._mimetype = TAR
    THEN Thrown(t, f, <<"Archive is, but can't find tar executable.">>, NoError, <<>>)
  ELSE IF command.threw # NoError THEN Thrown(t, f, command.threw, NoError, <<>>)
  ELSE Extraction(t, f, command.call,
                  IF CanExtract(f, command.call) THEN ends ELSE "rejected",
                  WithSlash(moveTo), options, rename, n, rms)

\* lines 379-402, command being what building the extraction command gave
Dispatch(t, f, command, options, moveTo, rename, ends, n, rms) ==
  IF t._tar = NullTool /\ t._mimetype = TAR
    THEN Thrown(t, f, <<"Archive is, but can't find tar executable.">>, NoError, <<>>)
  ELSE IF command.threw # NoError THEN Thrown(t, f, command.threw, NoError, <<>>)
  ELSE Extraction(t, f, command.call,
                  IF CanExtract(f, command.call) THEN ends ELSE "rejected",
                  WithSlash(Resolve(ProcessCwd, moveTo)), options, rename, n, rms)

\* ends: how the extraction command ends, when it can read the archive;
\* n: the number of this extraction; rms: how the two rm of the cleanup end
unpack(t, f, plat, moveTo, opts, rename, ends, n, rms) ==
  Dispatch(t, f, ExtractionCommand(t), MoveOptions(opts, plat),
           IF moveTo \in {UNDEFINED, NULL} THEN <<".">> ELSE moveTo, rename, ends, n, rms)

-----------------------------------------------------------------------------
(* list, tar_t, gunzip_l, unzip_l, src/src/index.js 542-658 *)

\* the most members a listing tool prints for one archive
MaxMembers == 2

\* the i-th line a listing tool prints: the top-level directory, then its files
MemberLine(i) == IF i = 1 THEN TopLevel \o <<"/">> ELSE TopLevel \o <<"/", DigitChars[i - 1]>>
Listings == { [i \in 1..k |-> MemberLine(i)] : k \in 1..MaxMembers }

\* the stdout of a tool that prints these lines
RECURSIVE Printed(_)
Printed(lines) == IF Len(lines) = 0 THEN <<>> ELSE Head(lines) \o <<"\n">> \o Printed(Tail(lines))

IsSpace(c) == c \in {" ", "\n"}
RECURSIVE Trim(_)
Trim(s) ==
  IF Len(s) = 0 THEN s
  ELSE IF IsSpace(s[1]) THEN Trim(Tail(s))
  ELSE IF IsSpace(Last(s)) THEN Trim(DropLast(s, 1))
  ELSE s

\* e.replace(/^.*<prefix>\/(.+)$/, '$1'), prefix read as a pattern in which
\* "." stands for any character: what follows the last <prefix>/ that has
\* something after it, or e when there is none
StripThrough(e, prefix) ==
  LET pat == Append(prefix, "/")
      hits == { i \in 1..(Len(e) - Len(pat)) :
                  \A j \in 1..Len(pat) :
                    IF j = Len(pat) THEN e[i + j - 1] = "/"
                    ELSE pat[j] = "." \/ pat[j] = e[i + j - 1] }
  IN IF hits = {} THEN e
     ELSE DropFirst(e, (CHOOSE i \in hits : \A j \in hits : j <= i) + Len(pat) - 1)

ListThrown(msg, tr) == [error |-> msg, result |-> Undefined, trace |-> tr]
Listed(c, entries, tr) ==
  [error |-> NoError, result |-> [type |-> "object", cmd |-> c, list |-> entries], trace |-> tr]

CanList(f, file, kinds) == Exists(f, StatPath(file)) /\ Entry(f, StatPath(file)).holds \in kinds

tar_t(t, f, tarFile, lines) ==
  LET c == Call(<<"tar">>, IF t._isCompressed THEN "-tzf" ELSE "-tf", tarFile, <<>>) IN
  IF ~CanList(f, tarFile, IF t._isCompressed THEN {"tgz"} ELSE {"tar", "tgz"})
    THEN ListThrown(<<"Couldn't Tar tail the archive">>, <<c>>)
  ELSE Listed(c, Split(Trim(Printed(lines)), "\n"), <<c>>)

\* the one line `gunzip -l --quiet` prints: sizes, ratio, uncompressed name
GunzipLine(gzFile) ==
  <<" ", "9", " ", "9", " ">> \o
    (IF EndsWith(gzFile, <<".", "t", "g", "z">>) THEN DropLast(gzFile, 4) \o <<".", "t", "a", "r">>
     ELSE IF EndsWith(gzFile, <<".", "g", "z">>) THEN DropLast(gzFile, 3)
     ELSE gzFile)

gunzip_l(t, f, gzFile) ==
  LET c == Call(<<"gunzip">>, "-l --quiet", gzFile, <<>>)
      list == Split(Trim(Printed(<<GunzipLine(gzFile)>>)), "\n")
  IN
  IF ~CanList(f, gzFile, {"gz", "tgz"})
    THEN ListThrown(<<"Couldn't Gunzip list the archive contents">>, <<c>>)
  ELSE Listed(c, [i \in 1..Len(list) |-> StripThrough(list[i], <<>>)], <<c>>)

unzip_l(t, f, zipFile, lines) ==
  LET c == Call(<<"unzip">>, "-Z -1 -x __MACOSX*", zipFile, <<>>)
      list == Tail(Split(Trim(Printed(lines)), "\n"))
  IN
  IF ~CanList(f, zipFile, {"zip"})
    THEN ListThrown(<<"Couldn't Unzip list the archive">>, <<c>>)
  ELSE Listed(c, [i \in 1..Len(list) |-> StripThrough(list[i], t._fileBasename)], <<c>>)

\* the three ifs of list() each start their command; the promise assigned
\* last is the one returned
list(t, f, file, lines) ==
  LET l1 == IF t._isTarFile THEN <<tar_t(t, f, file, lines)>> ELSE <<>>
      l2 == IF t._isGzipFile /\ ~t._isTarFile THEN <<gunzip_l(t, f, file)>> ELSE <<>>
      l3 == IF t._isZipFile THEN <<unzip_l(t, f, file, lines)>> ELSE <<>>
      started == l1 \o l2 \o l3
      RECURSIVE Traces(_)
      Traces(rs) == IF Len(rs) = 0 THEN <<>> ELSE Head(rs).trace \o Traces(Tail(rs))
  IN
  IF Len(started) = 0 THEN [error |-> NoError, result |-> Undefined, trace |-> <<>>]
  ELSE [Last(started) EXCEPT !.trace = Traces(started)]

-----------------------------------------------------------------------------
(* The calls a program makes on the instance *)

Archives == { TarArchive, TarGzArchive, TgzArchive, GzArchive, ZipArchive, RarArchive }

PathArgs == Archives \cup { UNDEFINED, <<>>, TextFile, MissingFile, RelativeZip, Str_u }

\* "../d" names /d from process.cwd()
RelativeDest == <<".", ".", "/", "d">>
MoveToArgs == { UNDEFINED, Str_d, RelativeDest, <<"n">> }
OptsArgs ==
  { NoOptions,
    [keys |-> {"force"}, force |-> FALSE, backup |-> NUMBERED],
    [keys |-> {"backup"}, force |-> TRUE, backup |-> <<>>] }
RenameArgs == { NoRename, [rename |-> TRUE, newName |-> <<"X">>] }

AllPresent == [t \in Tools |-> "present"]

\* a new Unpacker() on a machine with one of these tool sets and platforms
Start(envs, platforms) ==
  /\ this = Constructor
  /\ fs = InitialFs
  /\ platform \in platforms
  /\ toolEnv \in envs
  /\ gen = 0
  /\ lastOp = [op |-> "new"]
  /\ error = NoError
  /\ cause = NoError
  /\ result = Undefined
  /\ trace = <<>>

SetPath(paths, probes) ==
  \E filePath \in paths, probeRuns \in probes :
    \E r \in {setPath(this, filePath, fs, toolEnv, probeRuns)} :
      /\ this' = r.this
      /\ error' = r.error
      /\ cause' = NoError
      /\ result' = Undefined
      /\ trace' = r.trace
      /\ lastOp' = [op |-> "setPath", filePath |-> filePath]
      /\ UNCHANGED <<fs, platform, toolEnv, gen>>

CheckCommands ==
  \E r \in {checkCommands(this, toolEnv)} :
    /\ this' = r.this
    /\ error' = r.error
    /\ cause' = NoError
    /\ result' = IF r.error = NoError THEN [type |-> "object", bindings |-> r.bindings]
                 ELSE Undefined
    /\ trace' = r.trace
    /\ lastOp' = [op |-> "checkCommands"]
    /\ UNCHANGED <<fs, platform, toolEnv, gen>>

Removed == <<"removed", "removed">>

Unpack(moveTos, optss, renames, endss, rmss) ==
  /\ gen < MaxGen
  /\ \E moveTo \in moveTos, opts \in optss, rename \in renames, ends \in endss, rms \in rmss :
       \E r \in {unpack(this, fs, platform, moveTo, opts, rename, ends, gen + 1, rms)} :
         /\ this' = r.this
         /\ fs' = r.fs
         /\ error' = r.error
         /\ cause' = r.cause
         /\ result' = r.result
         /\ trace' = r.trace
         /\ gen' = IF \E e \in r.fs : e.gen = gen + 1 THEN gen + 1 ELSE gen
         /\ lastOp' = [ op |-> "unpack", moveTo |-> moveTo, opts |-> opts, rename |-> rename,
                        ends |-> ends, rms |-> rms ]
         /\ UNCHANGED <<platform, toolEnv>>

List(listings) ==
  \E lines \in listings :
    \E r \in {list(this, fs, this._path, lines)} :
      /\ error' = r.error
      /\ cause' = NoError
      /\ result' = r.result
      /\ trace' = r.trace
      /\ lastOp' = [op |-> "list"]
      /\ UNCHANGED <<this, fs, platform, toolEnv, gen>>

\* The whole pipeline on the archives of the test suite, with every tool
\* installed: classify, look the tools up, extract, relocate, clean, list.
Init == Start({AllPresent}, Platforms)

Next ==
  \/ SetPath(Archives, {TRUE})
  \/ CheckCommands
  \/ Unpack({Str_d, RelativeDest}, {NoOptions}, RenameArgs, ExtractionEnds, {Removed})
  \/ List(Listings)

Spec == Init /\ [][Next]_vars

\* Classification and listing alone, over every path argument, every tool
\* set, and a mimetype probe that may fail to run.
InitClassify == Start(ToolEnvs, {"linux"})

NextClassify ==
  \/ SetPath(PathArgs, BOOLEAN)
  \/ CheckCommands
  \/ List(Listings)

SpecClassify == InitClassify /\ [][NextClassify]_vars

\* Extraction where things go wrong: every tool set, an archive whose name
\* and content disagree, cleanups that rm rejects.
FaultArchives == { TarArchive, TgzArchive, GzArchive, ZipArchive, TarNamedTgz }

InitFaults == Start(ToolEnvs, {"linux"})

NextFaults ==
  \/ SetPath(FaultArchives, {TRUE})
  \/ Unpack({Str_d}, {NoOptions}, RenameArgs, {"clean", "rejected"}, RmEnds \X RmEnds)
  \/ List({<<MemberLine(1)>>})

SpecFaults == InitFaults /\ [][NextFaults]_vars

\* Relocation over every destination argument and every moveOptions: the
\* default destination, a destination that is there, one that is missing.
MoveArchives == { TarArchive, GzArchive, ZipArchive }

InitMove == Start({AllPresent}, {"linux"})

NextMove ==
  \/ SetPath(MoveArchives, {TRUE})
  \/ Unpack(MoveToArgs, OptsArgs, {NoRename}, {"clean"}, {Removed})

SpecMove == InitMove /\ [][NextMove]_vars

-----------------------------------------------------------------------------
(* What the claims speak of *)

Suffix_tar == <<".", "t", "a", "r">>
Suffix_targz == <<".", "t", "a", "r", ".", "g", "z">>
Suffix_tgz == <<".", "t", "g", "z">>
Suffix_gz == <<".", "g", "z">>
Suffix_zip == <<".", "z", "i", "p">>
Suffix_rar == <<".", "r", "a", "r">>

\* the literal suffix of an archive's name, the compound one before the bare
LiteralSuffix(p) ==
  IF EndsWith(p, Suffix_targz) THEN Suffix_targz
  ELSE CHOOSE s \in {Suffix_tar, Suffix_tgz, Suffix_gz, Suffix_zip, Suffix_rar} : EndsWith(p, s)

\* the calls of a trace that run an extraction program: every call but the
\* stat, mkdir, mv, rm and rename that relocate and clean
Relocating == { <<"fs.stat">>, <<"mkdir">>, <<"mv">>, <<"rm">>, <<"fs.rename">> }
IsExtraction(c) == c.prog \notin Relocating
ExtractionCalls(tr) == SelectSeq(tr, IsExtraction)

\* c is the extraction command of the family that the archive p belongs to
IsFamilyCommand(c, p) ==
  /\ c.a = p
  /\ CASE LiteralSuffix(p) = Suffix_tar -> c.prog = ToolPath("tar") /\ c.flags = "-xf"
       [] LiteralSuffix(p) \in {Suffix_targz, Suffix_tgz} ->
            c.prog = ToolPath("tar") /\ c.flags = "-xzf"
       [] LiteralSuffix(p) = Suffix_gz ->
            c.prog = ToolPath("gzip") /\ c.flags = "--decompress --keep --suffix"
       [] LiteralSuffix(p) = Suffix_zip -> c.prog = ToolPath("unzip")
       [] LiteralSuffix(p) = Suffix_rar -> c.prog \notin {ToolPath(tool) : tool \in Tools}

SetPathSucceeded == lastOp.op = "setPath" /\ error = NoError
UnpackSucceeded == lastOp.op = "unpack" /\ error = NoError
HasFamily(t) == t._isTarFile \/ t._isGzipFile \/ t._isZipFile

\* the directory a destination argument of the specifications names
Named_d(moveTo) == CASE moveTo \in {Str_d, RelativeDest} -> Str_d

\* where unpack put what it found at the staging path
Landing(res) == StatPath(res.destination \o Last(Split(res.cwd, "/")))

NewName_X == <<"X">>
MissingPath == <<"Missing required path argument.">>

-----------------------------------------------------------------------------
(* Claims *)

\* C1: after a successful setPath on an archive of a supported family (tar,
\* compressed tar, gzip, zip, rar), an unpack call runs exactly one
\* extraction command, and it is the command of that family.
C1_OneFamilyCommand ==
  (lastOp.op = "unpack" /\ this._path \in Archives) =>
    /\ Len(ExtractionCalls(trace)) = 1
    /\ IsFamilyCommand(ExtractionCalls(trace)[1], this._path)

\* C2: after a successful setPath on a file named *.tar, *.tar.gz, *.tgz,
\* *.gz, *.zip or *.rar, getExtension() is exactly that literal suffix.
C2_LiteralExtension ==
  (SetPathSucceeded /\ lastOp.filePath \in Archives) =>
    getExtension = LiteralSuffix(lastOp.filePath)

\* C3: setPath never completes successfully while leaving the instance
\* without a family: a regular file that neither the mimetype nor the suffix
\* identifies makes it fail.
C3_NoSuccessWithoutFamily == SetPathSucceeded => HasFamily(this)

\* C4: a successful unpack(dest) returns a result whose destination starts
\* with the resolved dest, in every family, with and without a rename, and
\* nothing is left at the staging path.
C4_DestinationAndStaging ==
  UnpackSucceeded =>
    /\ StartsWith(result.destination, Named_d(lastOp.moveTo))
    /\ ~Exists(fs, StatPath(StagingPath(this)))

C4_Witness ==
  /\ UnpackSucceeded
  /\ lastOp.moveTo = RelativeDest
  /\ lastOp.rename.rename
  /\ this._isGzipFile /\ ~this._isTarFile
  /\ result.destination = Str_d \o <<"/", "a", "/">> \o NewName_X
  /\ Exists(fs, result.destination)

\* C5: a successful unpack(dest, null, {rename: true, newName: X}) returns a
\* result whose finalPath contains X, the relocated directory is at that
\* path, and nothing remains at the name it had before the rename.
C5_FinalPath ==
  (UnpackSucceeded /\ lastOp.rename.rename) =>
    /\ "finalPath" \in DOMAIN result
    /\ Contains(result.finalPath, lastOp.rename.newName)
    /\ Exists(fs, StatPath(result.finalPath))
    /\ ~Exists(fs, Child(Named_d(lastOp.moveTo), this._fileBasename))

\* C6: on a platform whose mv makes backups, a second successful unpack of
\* the same archive into the same destination, both with default options,
\* leaves the first extraction whole under <basename>.~n~ and the second at
\* <basename>, and no earlier extraction under the destination is lost.
C6_NumberedBackup ==
  [][ ( /\ platform = "linux"
        /\ lastOp.op = "unpack" /\ error = NoError
        /\ lastOp'.op = "unpack" /\ error' = NoError
        /\ lastOp.opts = NoOptions /\ lastOp'.opts = NoOptions
        /\ lastOp.rename = NoRename /\ lastOp'.rename = NoRename )
      => /\ Landing(result') = Landing(result)
         /\ \E n \in 1..Len(DigitChars) :
              /\ ~Exists(fs, BackupName(Landing(result), n))
              /\ Rebase({e \in fs : Under(e.path, Landing(result))},
                        Landing(result), BackupName(Landing(result), n)) \subseteq fs'
         /\ Exists(fs', Landing(result))
         /\ Entry(fs', Landing(result)).gen = gen'
         /\ Entry(fs, Landing(result)).gen < gen'
         /\ \A e \in fs : (e.gen > 0 /\ Under(e.path, Str_d)) =>
              \E e2 \in fs' : e2.gen = e.gen /\ e2.kind = e.kind /\ Under(e2.path, Str_d)
    ]_vars

C6_Witness ==
  /\ platform = "linux"
  /\ UnpackSucceeded /\ lastOp.opts = NoOptions /\ lastOp.rename = NoRename
  /\ this._path = TarGzArchive
  /\ Exists(fs, BackupName(Child(Str_d, TopLevel), 1))
  /\ Entry(fs, BackupName(Child(Str_d, TopLevel), 1)).gen = 1
  /\ Exists(fs, Child(Str_d, TopLevel))
  /\ Entry(fs, Child(Str_d, TopLevel)).gen = 2

\* C7: after a successful setPath on an archive of a supported family, list()
\* returns an object with the command and the entries: at least one entry
\* for a tar, compressed tar, zip or rar archive that has members, exactly
\* one for a gzip archive of a single file.
C7_ListEntries ==
  (lastOp.op = "list" /\ error = NoError /\ this._path \in Archives) =>
    /\ result.type = "object"
    /\ "cmd" \in DOMAIN result /\ "list" \in DOMAIN result
    /\ IF LiteralSuffix(this._path) = Suffix_gz THEN Len(result.list) = 1
       ELSE Len(result.list) >= 1

\* C8: setPath with an empty or absent path fails with the missing-path
\* error, issues no tool lookup, stat or mimetype probe, and leaves every
\* field of the instance as it was.
C8_MissingPath ==
  [][ (lastOp'.op = "setPath" /\ Falsy(lastOp'.filePath))
      => /\ error' = MissingPath
         /\ trace' = <<>>
         /\ this' = this
    ]_vars

C8_Witness ==
  /\ lastOp.op = "setPath" /\ lastOp.filePath = <<>>
  /\ error = MissingPath /\ trace = <<>>
  /\ this._path = ZipArchive /\ this._isZipFile /\ this._unzip.type = "object"

\* C9: setPath on a path that does not exist, or that is not a regular file,
\* fails, and getPath(), getMimetype(), getExtension() and getFileBasename()
\* return what they returned before the call.
C9_PathNotRecorded ==
  [][ (lastOp'.op = "setPath" /\ lastOp'.filePath \in {MissingFile, Str_u})
      => /\ error' # NoError
         /\ this'._path = this._path
         /\ this'._mimetype = this._mimetype
         /\ this'._fileExt = this._fileExt
         /\ this'._fileBasename = this._fileBasename
    ]_vars

C9_Witness ==
  /\ lastOp.op = "setPath" /\ lastOp.filePath = MissingFile
  /\ error = <<"Not a valid file path">>
  /\ getPath = TarArchive /\ getMimetype = TAR
  /\ getExtension = Suffix_tar /\ getFileBasename = TopLevel

\* C10: after a successful setPath, getMimetype() is the mimetype the probe
\* reported for the archive: application/x-tar, application/x-rar,
\* application/gzip, application/zip.
C10_ProbedMimetype ==
  (SetPathSucceeded /\ lastOp.filePath \in Archives) =>
    getMimetype = ProbeOutput(fs, this._path)

\* the name of the file a path argument names
FileName(p) == Last(Split(p, "/"))

C12_AbsolutePath ==
  /\ getPath # NULL => Head(getPath) = "/"
  /\ SetPathSucceeded =>
       getPath = IF lastOp.filePath = RelativeZip THEN ZipArchive ELSE lastOp.filePath

C12_Witness ==
  SetPathSucceeded /\ lastOp.filePath = RelativeZip /\ getPath = ZipArchive

\* C13: once a tool is resolved on the instance, found or recorded as not
\* found, no later checkCommands() or setPath() runs `which` for it or
\* changes its binding, and a checkCommands() that follows a checkCommands()
\* returns the same bindings.
C13_LookupsCached ==
  [][ /\ \A tool \in Tools :
           Binding(this, tool) # NullTool =>
             /\ Binding(this', tool) = Binding(this, tool)
             /\ \A i \in 1..Len(trace') : trace'[i] # WhichCall(tool)
      /\ ( /\ lastOp.op = "checkCommands" /\ error = NoError
           /\ lastOp'.op = "checkCommands" )
         => (error' = NoError /\ result' = result)
    ]_vars

C13_Witness ==
  /\ lastOp.op = "checkCommands" /\ error = NoError /\ trace = <<>>
  /\ result.bindings.tar = FalseTool
  /\ result.bindings.gzip.type = "object"

AbsentTools == {tool \in Tools : toolEnv[tool] = "exit1"}

\* C14: checkCommands() never throws because a tool is absent from the
\* system: it returns the bindings, with the not-found sentinel for the
\* absent tool.
C14_AbsentToolNoThrow ==
  (lastOp.op = "checkCommands" /\ AbsentTools # {}) =>
    /\ error = NoError
    /\ \A tool \in AbsentTools : Binding(this, tool) = FalseTool

Flags(t) == <<t._isTarFile, t._isGzipFile, t._isZipFile, t._isCompressed>>
Descriptor(t) == <<t._path, t._file, t._mimetype, t._fileExt, t._fileBasename, Flags(t)>>

\* C17: the family flags (tar, gzip, zip, compressed) that a successful
\* setPath(f) leaves are those it leaves on a new instance, whatever setPath
\* calls the instance has seen before.
C17_FlagsAsOnNewInstance ==
  SetPathSucceeded =>
    Flags(this) = Flags(setPath(Constructor, lastOp.filePath, fs, toolEnv, TRUE).this)

\* C18: a setPath call that fails, at whatever step, leaves the path, the
\* parsed file, the mimetype, the extension, the basename and the family
\* flags as they were before the call.
C18_FailureLeavesDescriptor ==
  [][ (lastOp'.op = "setPath" /\ error' # NoError) => Descriptor(this') = Descriptor(this)
    ]_vars

\* C15: a cleanup that fails never changes what unpack does: the error, the
\* cause, the result and the instance an unpack call leaves are those it
\* leaves when both rm commands succeed.
C15_CleanupNeverEscalates ==
  [][ lastOp'.op = "unpack" =>
        \E r \in { unpack(this, fs, platform, lastOp'.moveTo, lastOp'.opts, lastOp'.rename,
                          lastOp'.ends, gen + 1, Removed) } :
          /\ error' = r.error
          /\ cause' = r.cause
          /\ result' = r.result
          /\ this' = r.this
    ]_vars

C15_Witness ==
  /\ UnpackSucceeded
  /\ lastOp.rms = <<"rejected", "rejected">>
  /\ lastOp.rename.rename
  /\ result.unpacked
  /\ \E i \in 1..Len(trace) : trace[i].prog = <<"rm">>

CompoundNamed == {TgzArchive, TarNamedTgz}

\* C16: a file named *.tar.gz or *.tgz is handled as a compressed tar
\* whatever the probe reports: setPath sets the tar and compressed flags,
\* unpack runs tar with the decompression flag, list runs the tar listing
\* with the decompression flag.
C16_CompoundSuffixIsCompressedTar ==
  (this._path \in CompoundNamed /\ toolEnv = AllPresent) =>
    /\ this._isTarFile /\ this._isCompressed
    /\ lastOp.op = "unpack" =>
         /\ trace # <<>>
         /\ trace[1] = Call(ToolPath("tar"), "-xzf", this._path, <<>>)
    /\ lastOp.op = "list" => trace = <<Call(<<"tar">>, "-tzf", this._path, <<>>)>>

\* the tool that the family of the instance needs
RequiredTool(t) ==
  IF t._isTarFile THEN "tar" ELSE IF t._isGzipFile THEN "gzip" ELSE "unzip"
ToolNotAvailable ==
  { <<"Archive is, but can't find tar executable.">>,
    <<"Archive is, but can't find gzip executable.">>,
    <<"Archive is, but can't find unzip executable.">> }

\* C19: when the tool that the family needs is not available (never looked
\* up, or recorded as not found), unpack fails with the tool-not-available
\* error and issues no external command.
C19_UnavailableToolFailsFirst ==
  (lastOp.op = "unpack" /\ HasFamily(this)
     /\ Binding(this, RequiredTool(this)).type # "object") =>
    /\ error \in ToolNotAvailable
    /\ trace = <<>>

ExtractionFailed == <<"Failed trying to move unpacked file(s)">>

\* C20: when the extraction command cannot be run, or ends with text on
\* stderr and nothing on stdout, unpack fails and issues no stat, move,
\* cleanup or rename; when it ends with text on both, unpack does not fail
\* for that and goes on to the relocation.
C20_ExtractionOutcome ==
  [][ (lastOp'.op = "unpack" /\ ExtractionCalls(trace') # <<>>) =>
        /\ (lastOp'.ends \in {"stderrOnly", "rejected"} \/ ~CanExtract(fs, trace'[1])) =>
             /\ error' = ExtractionFailed
             /\ result' = Undefined
             /\ Len(trace') = 1
        /\ (lastOp'.ends = "noisy" /\ CanExtract(fs, trace'[1])) =>
             /\ error' # ExtractionFailed
             /\ Len(trace') > 1
             /\ trace'[2] = StatCall(StagingPath(this))
    ]_vars

C20_Witness ==
  /\ lastOp.op = "unpack" /\ lastOp.ends = "stderrOnly"
  /\ error = ExtractionFailed /\ cause = <<"stderr">>
  /\ Len(trace) = 1 /\ trace[1].prog = ToolPath("tar")
  /\ Exists(fs, StatPath(StagingPath(this)))

GenericCause == <<"Error ocurred trying to move">>
IsRm(c) == c.prog = <<"rm">>
IsMv(c) == c.prog = <<"mv">>

\* C21: when unpack fails in the extraction or in the relocation (the stat
\* of the staging path, mkdir, mv), the error it throws carries the
\* diagnostic of the step that failed as its cause, never a generic error.
C21_CauseIsDiagnostic ==
  (lastOp.op = "unpack" /\ error # NoError /\ trace # <<>>
     /\ Last(trace).prog # <<"fs.rename">>) =>
    cause \notin {NoError, GenericCause}

\* C22: the staging path that unpack stats is the directory of the source
\* file joined with the basename, for every family.
C22_StagingBesideSource ==
  (lastOp.op = "unpack" /\ Len(trace) >= 2) =>
    trace[2] = StatCall(this._file.dir \o <<"/">> \o this._fileBasename)

\* C24: the junk-artifact removal runs only after extraction, relocation and
\* a requested rename have all succeeded: an unpack call that ends in an
\* error has run no rm command.
C24_NoCleanupBeforeFailure ==
  (lastOp.op = "unpack" /\ error # NoError) => SelectSeq(trace, IsRm) = <<>>

\* the step of lines 409-455 that a call belongs to: 1 extract, 2 relocate,
\* 3 clean; the rename of lines 456-471 comes after them
Phase(c) ==
  IF IsExtraction(c) THEN 1
  ELSE IF c.prog \in { <<"fs.stat">>, <<"mkdir">>, <<"mv">> } THEN 2
  ELSE IF IsRm(c) THEN 3
  ELSE 4

\* C25: within one unpack call the external steps run one after another in
\* the order extract, relocate, clean, a step that fails being the last one
\* of the call; the extraction command and the mv command each run at most
\* once, and exactly once in a call that succeeds.
C25_StepsInOrder ==
  lastOp.op = "unpack" =>
    /\ Len(ExtractionCalls(trace)) <= 1
    /\ Len(SelectSeq(trace, IsMv)) <= 1
    /\ \A i, j \in 1..Len(trace) : i < j => Phase(trace[i]) <= Phase(trace[j])
    /\ trace # <<>> => Phase(trace[1]) = 1
    /\ error = ExtractionFailed => Len(trace) = 1
    /\ (error # NoError /\ cause = GenericCause) => \A i \in 1..Len(trace) : Phase(trace[i]) <= 2
    /\ error = NoError =>
         /\ Len(ExtractionCalls(trace)) = 1
         /\ Len(SelectSeq(trace, IsMv)) = 1
         /\ Len(SelectSeq(trace, IsRm)) = 2

C25_Witness ==
  /\ UnpackSucceeded
  /\ Len(trace) >= 6
  /\ Phase(trace[1]) = 1 /\ Phase(trace[2]) = 2
  /\ \E i \in 1..Len(trace) : IsMv(trace[i])
  /\ IsRm(trace[Len(trace)])

NotAnArchive == <<"Not an archive?">>

\* C28: when no family flag is set on the instance, unpack fails with
\* 'Not an archive?', runs no external command, and leaves the file system
\* and the instance as they were.
C28_NoFamilyFailsClean ==
  [][ (lastOp'.op = "unpack" /\ ~HasFamily(this)) =>
        /\ error' = NotAnArchive
        /\ result' = Undefined
        /\ trace' = <<>>
        /\ fs' = fs
        /\ this' = this
    ]_vars

C28_Witness ==
  /\ lastOp.op = "unpack"
  /\ ~HasFamily(this)
  /\ this._path = RarArchive
  /\ this._unzip.type = "object"
  /\ error = NotAnArchive
  /\ trace = <<>>

IsLookup(c, tool) == c = WhichCall(tool)
Looked(tr, tool) == \E i \in 1..Len(tr) : IsLookup(tr[i], tool)

\* C26: for each tool the `which` lookup runs at most once on an instance,
\* also after a lookup of that tool that threw: a call never repeats a
\* lookup that the call before it made, and a binding that is no longer
\* null is never replaced.
C26_LookupOncePerInstance ==
  [][ \A tool \in Tools :
        /\ Looked(trace, tool) => ~Looked(trace', tool)
        /\ Binding(this, tool) # NullTool => Binding(this', tool) = Binding(this, tool)
    ]_vars

\* a member name without the top-level directory in front of it
Relative(e) ==
  IF StartsWith(e, Append(TopLevel, "/")) /\ Len(e) > Len(TopLevel) + 1
    THEN DropFirst(e, Len(TopLevel) + 1)
  ELSE e

\* C27: the list that list() returns for a tar or a zip archive has one
\* entry for every member name the tool printed, in the tool's order, each
\* the name without the top-level directory prefix.
C27_EveryMemberListed ==
  (lastOp.op = "list" /\ error = NoError /\ result # Undefined
     /\ (this._isTarFile \/ this._isZipFile)) =>
    \E lines \in Listings :
      /\ Len(result.list) = Len(lines)
      /\ \A i \in 1..Len(lines) : result.list[i] = Relative(lines[i])

\* C30: whatever setPath calls were made, the zip flag is never set
\* together with the tar flag or the gzip flag, so list() starts at most one
\* listing command.
C30_ZipFlagAlone ==
  /\ this._isZipFile => (~this._isTarFile /\ ~this._isGzipFile)
  /\ LET dispatch == << this._isTarFile, this._isGzipFile /\ ~this._isTarFile,
                        this._isZipFile >>
     IN \A i, j \in 1..3 : i # j => ~(dispatch[i] /\ dispatch[j])
  /\ lastOp.op = "list" => Len(trace) <= 1

C30_Witness ==
  /\ lastOp.op = "list"
  /\ this._isZipFile
  /\ this._path = RarArchive
  /\ Len(trace) = 1
  /\ trace[1].prog = <<"unzip">>

\* C23: when what the extraction staged already sits in the resolved
\* destination, as with the default destination '.' for a tar or zip
\* archive, unpack issues no mv command and succeeds.
C23_MoveSkippedInPlace ==
  (lastOp.op = "unpack" /\ Len(trace) >= 2
     /\ Stat(fs, StagingPath(this)) = "dir"
     /\ lastOp.moveTo = UNDEFINED
     /\ MoveOptions(lastOp.opts, platform).force
     /\ WithSlash(Parse(StatPath(StagingPath(this))).dir) = WithSlash(Resolve(ProcessCwd, <<".">>))) =>
    /\ error = NoError
    /\ SelectSeq(trace, IsMv) = <<>>

\* C29: with moveOptions.force false, unpack into a destination directory
\* that was missing succeeds: mkdir makes the directory and mv moves what
\* was staged into it.
C29_ForceFalseMissingDestination ==
  (lastOp.op = "unpack" /\ "force" \in lastOp.opts.keys /\ ~lastOp.opts.force
     /\ \E i \in 1..Len(trace) : trace[i].prog = <<"mkdir">> /\ Stat(fs, trace[i].a) = "dir") =>
    /\ error = NoError
    /\ SelectSeq(trace, IsMv) # <<>>

====
